---- MODULE Spec2Model ----
(***************************************************************************)
(* Delivery performance engine of ran.py: classification of orders into    *)
(* same-day and next-day buckets and the per-day, per-hub and per-customer *)
(* rollups.                                                                *)
(*                                                                         *)
(* A timestamp is a record [year, month, day, hour]; minutes never decide  *)
(* anything in the code (only .dt.date, .dt.month, .dt.year, .dt.hour and  *)
(* the ordering of timestamps are used), so the time of day is the hour.   *)
(* NaT, the value pd.to_datetime(errors='coerce') gives an unparsable      *)
(* field, is the all-zero record.  A data frame is a sequence of rows; a   *)
(* row keeps its index label ix through every filter, as in pandas.        *)
(* Percentages are integers in hundredths of a percent (3333 = 33.33).     *)
(***************************************************************************)
EXTENDS Integers, Sequences, FiniteSets, TLC

\* ------------------------------------------------------------- bounds
\* Largest number of rows of an uploaded table.
MaxOrders == 2

\* ------------------------------------------------------------- calendar
NaT == [year |-> 0, month |-> 0, day |-> 0, hour |-> 0]

IsNaT(t) == t.year = 0

Ts(y, m, d, h) == [year |-> y, month |-> m, day |-> d, hour |-> h]

IsLeap(y) == (y % 4 = 0 /\ y % 100 # 0) \/ y % 400 = 0

DaysInMonth(y, m) ==
    IF m = 2 THEN (IF IsLeap(y) THEN 29 ELSE 28)
    ELSE IF m \in {4, 6, 9, 11} THEN 30 ELSE 31

\* t + pd.Timedelta(days=1)
PlusDay(t) ==
    IF t.day < DaysInMonth(t.year, t.month) THEN [t EXCEPT !.day = t.day + 1]
    ELSE IF t.month < 12 THEN [t EXCEPT !.month = t.month + 1, !.day = 1]
    ELSE [t EXCEPT !.year = t.year + 1, !.month = 1, !.day = 1]

\* t - pd.Timedelta(days=1)
MinusDay(t) ==
    IF t.day > 1 THEN [t EXCEPT !.day = t.day - 1]
    ELSE IF t.month > 1
         THEN [t EXCEPT !.month = t.month - 1,
                        !.day = DaysInMonth(t.year, t.month - 1)]
         ELSE [t EXCEPT !.year = t.year - 1, !.month = 12, !.day = 31]

\* Ordering of two timestamps, neither NaT.
TsLE(a, b) ==
    \/ a.year < b.year
    \/ a.year = b.year /\ a.month < b.month
    \/ a.year = b.year /\ a.month = b.month /\ a.day < b.day
    \/ a.year = b.year /\ a.month = b.month /\ a.day = b.day /\ a.hour <= b.hour

\* Series.dt.date == d.date(): never true of NaT.
SameDate(t, d) ==
    ~IsNaT(t) /\ t.year = d.year /\ t.month = d.month /\ t.day = d.day

\* date.strftime('%Y-%m-%d'), kept as the three numbers it prints.
DateStr(t) == [year |-> t.year, month |-> t.month, day |-> t.day]

\* The number of the day of a timestamp, counted from 1970-01-01, and the date
\* of a day number: the proleptic Gregorian calendar pandas counts days in.
ToOrdinal(t) ==
    LET y == IF t.month <= 2 THEN t.year - 1 ELSE t.year
        era == y \div 400
        yoe == y - era * 400
        mp == IF t.month > 2 THEN t.month - 3 ELSE t.month + 9
        doy == (153 * mp + 2) \div 5 + t.day - 1
        doe == yoe * 365 + yoe \div 4 - yoe \div 100 + doy
    IN era * 146097 + doe - 719468

FromOrdinal(n, hour) ==
    LET z == n + 719468
        era == z \div 146097
        doe == z - era * 146097
        yoe == (doe - doe \div 1460 + doe \div 36524 - doe \div 146096) \div 365
        doy == doe - (365 * yoe + yoe \div 4 - yoe \div 100)
        mp == (5 * doy + 2) \div 153
        d == doy - (153 * mp + 2) \div 5 + 1
        m == IF mp < 10 THEN mp + 3 ELSE mp - 9
        y == yoe + era * 400
    IN Ts(IF m <= 2 THEN y + 1 ELSE y, m, d, hour)

\* pd.date_range(start, end, freq='D'): start, start + 1 day, ... while not
\* after end, each keeping the time of day of start.
date_range(start, end) ==
    LET last == IF start.hour <= end.hour THEN ToOrdinal(end)
                ELSE ToOrdinal(end) - 1
        first == ToOrdinal(start)
    IN [i \in 1..(last - first + 1) |-> FromOrdinal(first + i - 1, start.hour)]

\* ------------------------------------------------------------- frames
RECURSIVE MinPicked(_)
MinPicked(df) ==
    IF df = <<>> THEN NaT
    ELSE LET h == Head(df).Picked_on
             r == MinPicked(Tail(df))
         IN IF IsNaT(h) THEN r
            ELSE IF IsNaT(r) THEN h
            ELSE IF TsLE(h, r) THEN h ELSE r

RECURSIVE MaxPicked(_)
MaxPicked(df) ==
    IF df = <<>> THEN NaT
    ELSE LET h == Head(df).Picked_on
             r == MaxPicked(Tail(df))
         IN IF IsNaT(h) THEN r
            ELSE IF IsNaT(r) THEN h
            ELSE IF TsLE(r, h) THEN h ELSE r

\* round(x, 2) in hundredths: the nearest integer to num / den, an exact half
\* going to the even one.  Round2 is round(num / den * 100, 2).
RoundDiv(num, den) ==
    LET q == num \div den
        r == num % den
    IN IF 2 * r > den \/ (2 * r = den /\ q % 2 = 1) THEN q + 1 ELSE q

Round2(num, den) == RoundDiv(num * 10000, den)

\* Percentage without the guard: -1 stands for what a division by zero gives.
Percentage_no_guard(count, orders) ==
    IF orders # 0 THEN Round2(count, orders) ELSE -1

\* (count / orders * 100) if orders > 0 else 0, then round(_, 2)
Percentage(count, orders) == IF orders > 0 THEN Round2(count, orders) ELSE 0

\* ------------------------------------------------------------- find_hub_column
hub_column_candidates ==
    <<"Delivery hub", "Hub", "Delivery Hub", "Delivery_hub", "delivery_hub",
      "delivery hub">>

None == "None"

find_hub_column(cols) ==
    IF \E i \in DOMAIN hub_column_candidates : hub_column_candidates[i] \in cols
    THEN hub_column_candidates[
             CHOOSE i \in DOMAIN hub_column_candidates :
                 /\ hub_column_candidates[i] \in cols
                 /\ \A j \in 1..(i - 1) : hub_column_candidates[j] \notin cols]
    ELSE None

\* ------------------------------------------------------------- filter_month_data
filter_month_data(df, month) ==
    LET Keep(o) == ~IsNaT(o.Picked_on) /\ o.Picked_on.month = month
    IN SelectSeq(df, Keep)

\* The hub filter both process_same_day and process_next_day apply first.
HubFilterApplies(cols, hub_filter, hub_column) ==
    hub_filter # "All" /\ hub_column # None /\ hub_column \in cols

ApplyHubFilter(df, cols, hub_filter, hub_column) ==
    IF HubFilterApplies(cols, hub_filter, hub_column)
    THEN LET Keep(o) == o.Hub = hub_filter IN SelectSeq(df, Keep)
    ELSE df

\* The value a raised exception leaves the caller with, and a returned frame.
Raised == [raised |-> TRUE, rows |-> <<>>, rows2 |-> <<>>]

Returned(rows) == [raised |-> FALSE, rows |-> rows, rows2 |-> <<>>]

Returned2(rows, rows2) == [raised |-> FALSE, rows |-> rows, rows2 |-> rows2]

\* ------------------------------------------------------------- process_same_day
same_day_special_customers ==
    {"WESTSIDE UNIT OF TRENT LIMITED", "TATA CLiQ",
     "ZISHTA TRADITIONS PRIVATE LIMITED", "Heads Up for Tails HUFT"}

\* Orders of the (hub-filtered) month picked on the date.
picked_orders(df_month, date) ==
    LET Keep(o) == SameDate(o.Picked_on, date) IN SelectSeq(df_month, Keep)

\* valid_orders with the 3 PM cutoff applied to every customer.
valid_orders_cutoff_for_all(df_month, date) ==
    LET Early(o) == o.Picked_on.hour < 15
    IN SelectSeq(picked_orders(df_month, date), Early)

\* Regular orders at any hour, then special orders picked before 3 PM.
valid_orders(df_month, date) ==
    LET picked == picked_orders(df_month, date)
        Regular(o) == o.Customer \notin same_day_special_customers
        Special(o) == /\ o.Customer \in same_day_special_customers
                      /\ o.Picked_on.hour < 15
    IN SelectSeq(picked, Regular) \o SelectSeq(picked, Special)

same_day_row(df_month, cols, hub_filter, hub_column, date) ==
    LET valid == valid_orders(df_month, date)
        Att(o) == SameDate(o.First_attempted_on, date)
        Del(o) == SameDate(o.Delivered_on, date)
        same_day_orders == Len(valid)
        attempted == Len(SelectSeq(valid, Att))
        delivered == Len(SelectSeq(valid, Del))
    IN [Date |-> DateStr(date),
        Hub |-> IF HubFilterApplies(cols, hub_filter, hub_column)
                THEN hub_filter ELSE "All Hubs",
        Same_day_Orders |-> same_day_orders,
        Attempted |-> attempted,
        Attempted_pct |-> Percentage(attempted, same_day_orders),
        Delivered |-> delivered,
        Delivered_pct |-> Percentage(delivered, same_day_orders)]

\* same_day_rows skipping the dates without a valid order instead.
RECURSIVE same_day_rows_skip_zero(_, _, _, _, _, _, _)
same_day_rows_skip_zero(df_month, cols, hub_filter, hub_column, dates, lo, hi) ==
    IF lo > hi THEN <<>>
    ELSE IF lo = hi
    THEN IF Len(valid_orders(df_month, dates[lo])) = 0 THEN <<>>
         ELSE <<same_day_row(df_month, cols, hub_filter, hub_column,
                             dates[lo])>>
    ELSE LET mid == (lo + hi) \div 2
         IN same_day_rows_skip_zero(df_month, cols, hub_filter, hub_column,
                                    dates, lo, mid)
            \o same_day_rows_skip_zero(df_month, cols, hub_filter, hub_column,
                                       dates, mid + 1, hi)

\* for date in dates_in_month, over dates[lo..hi]: a date without a picked
\* order is skipped.  The loop is unrolled by halves.
RECURSIVE same_day_rows(_, _, _, _, _, _, _)
same_day_rows(df_month, cols, hub_filter, hub_column, dates, lo, hi) ==
    IF lo > hi THEN <<>>
    ELSE IF lo = hi
    THEN IF Len(picked_orders(df_month, dates[lo])) = 0 THEN <<>>
         ELSE <<same_day_row(df_month, cols, hub_filter, hub_column,
                             dates[lo])>>
    ELSE LET mid == (lo + hi) \div 2
         IN same_day_rows(df_month, cols, hub_filter, hub_column, dates,
                          lo, mid)
            \o same_day_rows(df_month, cols, hub_filter, hub_column, dates,
                             mid + 1, hi)

\* The frame process_same_day returns; pd.date_range raises on the NaT that
\* min() and max() give an empty frame.
process_same_day(df_month0, cols, hub_filter, hub_column) ==
    LET df_month == ApplyHubFilter(df_month0, cols, hub_filter, hub_column)
        min_date == MinPicked(df_month)
        max_date == MaxPicked(df_month)
        dates_in_month == date_range([min_date EXCEPT !.day = 1],
                                     PlusDay(max_date))
    IN IF IsNaT(min_date) THEN Raised
       ELSE Returned(same_day_rows(df_month, cols, hub_filter, hub_column,
                                   dates_in_month, 1, Len(dates_in_month)))

\* ------------------------------------------------------------- process_next_day
next_day_special_customers ==
    {"WESTSIDE UNIT OF TRENT LIMITED", "TATA CLiQ",
     "ZISHTA TRADITIONS PRIVATE LIMITED", "Ugaoo", "Heads Up for Tails HUFT"}

\* The frame the previous day's orders are looked up in: the (hub-filtered)
\* month when the previous day is in it, else the previous month of the full
\* table, hub-filtered the same way.
prev_day_df(df_month, df_full, cols, month_num, hub_filter, hub_column, min_year, previous_date) ==
    LET prev_month == IF month_num > 1 THEN month_num - 1 ELSE 12
        prev_year == IF month_num > 1 THEN min_year ELSE min_year - 1
        InPrev(o) == /\ ~IsNaT(o.Picked_on)
                     /\ o.Picked_on.month = prev_month
                     /\ o.Picked_on.year = prev_year
    IN IF previous_date.month = month_num THEN df_month
       ELSE ApplyHubFilter(SelectSeq(df_full, InPrev), cols, hub_filter,
                           hub_column)

\* Special-customer orders picked at or after 3 PM on the day before the date.
special_orders(df_month, df_full, cols, month_num, hub_filter, hub_column, min_year, date) ==
    LET previous_date == MinusDay(date)
        Late(o) == /\ o.Customer \in next_day_special_customers
                   /\ SameDate(o.Picked_on, previous_date)
                   /\ o.Picked_on.hour >= 15
    IN SelectSeq(prev_day_df(df_month, df_full, cols, month_num, hub_filter,
                              hub_column, min_year, previous_date), Late)

\* next_day_row counting every attempted order as attempted on the current day.
next_day_row_any_attempt(special, cols, hub_filter, hub_column, date) ==
    LET previous_date == MinusDay(date)
        AttPrev(o) == SameDate(o.First_attempted_on, previous_date)
        AttCur(o) == ~IsNaT(o.First_attempted_on)
        DelPrev(o) == SameDate(o.Delivered_on, previous_date)
        DelCur(o) == SameDate(o.Delivered_on, date)
        next_day_orders_count == Len(special)
        attempted_previous_day == Len(SelectSeq(special, AttPrev))
        attempted_current_day == Len(SelectSeq(special, AttCur))
        total_attempted == attempted_previous_day + attempted_current_day
        delivered_previous_day == Len(SelectSeq(special, DelPrev))
        delivered_current_day == Len(SelectSeq(special, DelCur))
        total_delivered == delivered_previous_day + delivered_current_day
    IN [Date |-> DateStr(date),
        Hub |-> IF HubFilterApplies(cols, hub_filter, hub_column)
                THEN hub_filter ELSE "All Hubs",
        Next_day_Orders |-> next_day_orders_count,
        Attempted |-> total_attempted,
        Attempted_pct |-> Percentage(total_attempted, next_day_orders_count),
        Delivered |-> total_delivered,
        Delivered_pct |-> Percentage(total_delivered, next_day_orders_count),
        Attempted_Previous_Day |-> attempted_previous_day,
        Attempted_Current_Day |-> attempted_current_day,
        Delivered_Previous_Day |-> delivered_previous_day,
        Delivered_Current_Day |-> delivered_current_day]

next_day_row(special, cols, hub_filter, hub_column, date) ==
    LET previous_date == MinusDay(date)
        AttPrev(o) == SameDate(o.First_attempted_on, previous_date)
        AttCur(o) == SameDate(o.First_attempted_on, date)
        DelPrev(o) == SameDate(o.Delivered_on, previous_date)
        DelCur(o) == SameDate(o.Delivered_on, date)
        next_day_orders_count == Len(special)
        attempted_previous_day == Len(SelectSeq(special, AttPrev))
        attempted_current_day == Len(SelectSeq(special, AttCur))
        total_attempted == attempted_previous_day + attempted_current_day
        delivered_previous_day == Len(SelectSeq(special, DelPrev))
        delivered_current_day == Len(SelectSeq(special, DelCur))
        total_delivered == delivered_previous_day + delivered_current_day
    IN [Date |-> DateStr(date),
        Hub |-> IF HubFilterApplies(cols, hub_filter, hub_column)
                THEN hub_filter ELSE "All Hubs",
        Next_day_Orders |-> next_day_orders_count,
        Attempted |-> total_attempted,
        Attempted_pct |-> Percentage(total_attempted, next_day_orders_count),
        Delivered |-> total_delivered,
        Delivered_pct |-> Percentage(total_delivered, next_day_orders_count),
        Attempted_Previous_Day |-> attempted_previous_day,
        Attempted_Current_Day |-> attempted_current_day,
        Delivered_Previous_Day |-> delivered_previous_day,
        Delivered_Current_Day |-> delivered_current_day]

\* next_day_rows without the skip of the dates that have no source order.
RECURSIVE next_day_rows_no_skip(_, _, _, _, _, _, _, _, _, _)
next_day_rows_no_skip(df_month, df_full, cols, month_num, hub_filter, hub_column, min_year, dates, lo, hi) ==
    IF lo > hi THEN <<>>
    ELSE IF lo = hi
    THEN <<next_day_row(special_orders(df_month, df_full, cols, month_num,
                            hub_filter, hub_column, min_year, dates[lo]),
                        cols, hub_filter, hub_column, dates[lo])>>
    ELSE LET mid == (lo + hi) \div 2
         IN next_day_rows_no_skip(df_month, df_full, cols, month_num,
                hub_filter, hub_column, min_year, dates, lo, mid)
            \o next_day_rows_no_skip(df_month, df_full, cols, month_num,
                   hub_filter, hub_column, min_year, dates, mid + 1, hi)

\* for date in dates_in_month, over dates[lo..hi]: a date without a source
\* order is skipped.  The loop is unrolled by halves.
RECURSIVE next_day_rows(_, _, _, _, _, _, _, _, _, _)
next_day_rows(df_month, df_full, cols, month_num, hub_filter, hub_column, min_year, dates, lo, hi) ==
    IF lo > hi THEN <<>>
    ELSE IF lo = hi
    THEN LET special == special_orders(df_month, df_full, cols, month_num,
                            hub_filter, hub_column, min_year, dates[lo])
         IN IF Len(special) = 0 THEN <<>>
            ELSE <<next_day_row(special, cols, hub_filter, hub_column,
                                dates[lo])>>
    ELSE LET mid == (lo + hi) \div 2
         IN next_day_rows(df_month, df_full, cols, month_num, hub_filter,
                          hub_column, min_year, dates, lo, mid)
            \o next_day_rows(df_month, df_full, cols, month_num, hub_filter,
                             hub_column, min_year, dates, mid + 1, hi)

\* start + pd.offsets.MonthEnd(1) of the first day of a month: its last day.
MonthEnd(start) ==
    [start EXCEPT !.day = DaysInMonth(start.year, start.month)]

\* The frame process_next_day returns, over the days of the month month_num
\* of the year of the earliest pickup; datetime(min_date.year, ...) raises on
\* the NaT that min() gives an empty frame.
process_next_day(df_month0, df_full, cols, month_num, hub_filter, hub_column) ==
    LET df_month == ApplyHubFilter(df_month0, cols, hub_filter, hub_column)
        min_date == MinPicked(df_month)
        start == Ts(min_date.year, month_num, 1, 0)
        dates_in_month == date_range(start, MonthEnd(start))
    IN IF IsNaT(min_date) THEN Raised
       ELSE Returned(next_day_rows(df_month, df_full, cols, month_num,
                hub_filter, hub_column, min_date.year, dates_in_month, 1,
                Len(dates_in_month)))

\* ------------------------------------------------------------- hub rollups
\* df_month[hub_column].unique(): the hub values in order of first appearance.
RECURSIVE unique_hubs(_)
unique_hubs(df) ==
    IF df = <<>> THEN <<>>
    ELSE LET init == unique_hubs(SubSeq(df, 1, Len(df) - 1))
             h == df[Len(df)].Hub
         IN IF \E i \in DOMAIN init : init[i] = h THEN init ELSE Append(init, h)

\* One hub after the other; an exception of either call ends the loop.
RECURSIVE all_hubs_loop(_, _, _, _, _, _)
all_hubs_loop(df_month, df_full, cols, month_num, hub_column, hubs) ==
    IF hubs = <<>> THEN Returned2(<<>>, <<>>)
    ELSE LET hub == Head(hubs)
             same_day_hub == process_same_day(df_month, cols, hub, hub_column)
             next_day_hub == process_next_day(df_month, df_full, cols,
                                              month_num, hub, hub_column)
             rest == all_hubs_loop(df_month, df_full, cols, month_num,
                                   hub_column, Tail(hubs))
         IN IF same_day_hub.raised \/ next_day_hub.raised \/ rest.raised
            THEN Raised
            ELSE Returned2(same_day_hub.rows \o rest.rows,
                           next_day_hub.rows \o rest.rows2)

process_all_hubs_performance(df_month, df_full, cols, month_num, hub_column) ==
    IF hub_column = None \/ hub_column \notin cols THEN Returned2(<<>>, <<>>)
    ELSE all_hubs_loop(df_month, df_full, cols, month_num, hub_column,
                       unique_hubs(df_month))

\* Series.sum() of a column, the column given as a sequence of numbers.
RECURSIVE SumOf(_)
SumOf(column) ==
    IF column = <<>> THEN 0 ELSE Head(column) + SumOf(Tail(column))

\* round(Series.mean(), 2) of a percentage column of a non-empty frame.
MeanPct(column) == RoundDiv(SumOf(column), Len(column))

\* hub_summary_row with the rates taken over the month's orders, not as the
\* mean of the daily rates.
hub_summary_row_weighted(hub, same_day_hub) ==
    LET Att == [i \in DOMAIN same_day_hub |-> same_day_hub[i].Attempted]
        Del == [i \in DOMAIN same_day_hub |-> same_day_hub[i].Delivered]
        Orders == [i \in DOMAIN same_day_hub |-> same_day_hub[i].Same_day_Orders]
    IN [Hub |-> hub,
        Avg_Attempted_pct |-> Percentage(SumOf(Att), SumOf(Orders)),
        Avg_Delivered_pct |-> Percentage(SumOf(Del), SumOf(Orders)),
        Total_Orders |-> SumOf(Orders)]

hub_summary_row(hub, same_day_hub) ==
    LET AttPct == [i \in DOMAIN same_day_hub |-> same_day_hub[i].Attempted_pct]
        DelPct == [i \in DOMAIN same_day_hub |-> same_day_hub[i].Delivered_pct]
        Orders == [i \in DOMAIN same_day_hub |-> same_day_hub[i].Same_day_Orders]
    IN [Hub |-> hub,
        Avg_Attempted_pct |-> MeanPct(AttPct),
        Avg_Delivered_pct |-> MeanPct(DelPct),
        Total_Orders |-> SumOf(Orders)]

RECURSIVE hub_performance_loop(_, _, _, _)
hub_performance_loop(df_month, cols, hub_column, hubs) ==
    IF hubs = <<>> THEN Returned(<<>>)
    ELSE LET hub == Head(hubs)
             same_day_hub == process_same_day(df_month, cols, hub, hub_column)
             rest == hub_performance_loop(df_month, cols, hub_column,
                                          Tail(hubs))
         IN IF same_day_hub.raised \/ rest.raised THEN Raised
            ELSE IF same_day_hub.rows = <<>> THEN rest
            ELSE Returned(<<hub_summary_row(hub, same_day_hub.rows)>>
                          \o rest.rows)

process_hub_performance(df_month, cols, hub_column) ==
    IF hub_column = None \/ hub_column \notin cols THEN Returned(<<>>)
    ELSE hub_performance_loop(df_month, cols, hub_column,
                              unique_hubs(df_month))

\* ------------------------------------------------------------- process_customer_performance
\* The customer names of the model in the order str comparison gives them,
\* which is the order groupby('Customer') yields its groups in.
SortedCustomers == <<"Acme", "TATA CLiQ", "Ugaoo">>

\* customer_row counting every attempted order as attempted on the pickup day.
customer_row_any_attempt(customer, group) ==
    LET Att(o) == ~IsNaT(o.First_attempted_on)
        Del(o) == /\ ~IsNaT(o.Picked_on)
                  /\ SameDate(o.Delivered_on, o.Picked_on)
        total_orders == Len(group)
        same_day_attempted == Len(SelectSeq(group, Att))
        same_day_delivered == Len(SelectSeq(group, Del))
    IN [Customer |-> customer,
        Total_Orders |-> total_orders,
        Same_Day_Attempted |-> same_day_attempted,
        Attempted_pct |-> Percentage(same_day_attempted, total_orders),
        Same_Day_Delivered |-> same_day_delivered,
        Delivered_pct |-> Percentage(same_day_delivered, total_orders)]

customer_row(customer, group) ==
    LET Att(o) == /\ ~IsNaT(o.Picked_on)
                  /\ SameDate(o.First_attempted_on, o.Picked_on)
        Del(o) == /\ ~IsNaT(o.Picked_on)
                  /\ SameDate(o.Delivered_on, o.Picked_on)
        total_orders == Len(group)
        same_day_attempted == Len(SelectSeq(group, Att))
        same_day_delivered == Len(SelectSeq(group, Del))
    IN [Customer |-> customer,
        Total_Orders |-> total_orders,
        Same_Day_Attempted |-> same_day_attempted,
        Attempted_pct |-> Percentage(same_day_attempted, total_orders),
        Same_Day_Delivered |-> same_day_delivered,
        Delivered_pct |-> Percentage(same_day_delivered, total_orders)]

RECURSIVE customer_rows(_, _)
customer_rows(df_month, customers) ==
    IF customers = <<>> THEN <<>>
    ELSE LET customer == Head(customers)
             Mine(o) == o.Customer = customer
             group == SelectSeq(df_month, Mine)
             rest == customer_rows(df_month, Tail(customers))
         IN IF group = <<>> THEN rest
            ELSE <<customer_row(customer, group)>> \o rest

process_customer_performance(df_month) ==
    Returned(customer_rows(df_month, SortedCustomers))

\* ------------------------------------------------- cell colouring
\* Percentages are held in hundredths (Round2), so the thresholds 95 and 85
\* of color_cells are 9500 and 8500 here.
Green == "background-color: #4CAF50; color: white"

Yellow == "background-color: #FFEB3B; color: black"

Red == "background-color: #F44336; color: white"

\* isinstance(val, (int, float)): Styler.applymap hands the cells of a numeric
\* column over as numbers.
IsNumber(val) == val \in Int

\* color_cells with the boundaries left out of the better band.
color_cells_strict(val) ==
    IF IsNumber(val)
    THEN IF val > 9500 THEN Green
         ELSE IF val > 8500 THEN Yellow
         ELSE Red
    ELSE ""

color_cells(val) ==
    IF IsNumber(val)
    THEN IF val >= 9500 THEN Green
         ELSE IF val >= 8500 THEN Yellow
         ELSE Red
    ELSE ""

\* df.style.applymap(color_cells, subset=percentage_cols): the style of every
\* cell, "" where no style is set.
format_dataframe(frame, percentage_cols) ==
    [i \in DOMAIN frame |->
        [c \in DOMAIN frame[i] |->
            IF c \in percentage_cols THEN color_cells(frame[i][c]) ELSE ""]]

\* ------------------------------------------------------------- inputs
\* Customer names of the uploaded tables: special in both lists, special in
\* process_next_day's list only, and special in neither.
Customers == {"TATA CLiQ", "Ugaoo", "Acme"}

HubNames == {"H1", "H2"}

\* Columns every table has, and the two header sets of the model: without a
\* hub column and with one under the second candidate name.
BaseColumns == {"Customer", "Picked on", "First attempted on", "Delivered on"}

ColumnSets == {BaseColumns, BaseColumns \cup {"Hub"}}

HubValues(cols) == IF find_hub_column(cols) = None THEN {""} ELSE HubNames

\* A first attempt or delivery k days after the pickup day, -1 standing for a
\* field that did not parse.
RECURSIVE PlusDays(_, _)
PlusDays(t, k) == IF k = 0 THEN t ELSE PlusDays(PlusDay(t), k - 1)

After(picked, k) ==
    IF k < 0 \/ IsNaT(picked) THEN NaT
    ELSE [PlusDays(picked, k) EXCEPT !.hour = 18]

\* (first attempt, delivery) in days after the pickup; the tables without a
\* hub column take the first three.
Lifecycles == {<<-1, -1>>, <<0, 1>>, <<1, 1>>, <<0, 0>>, <<2, 2>>}

LifecyclesOf(cols) ==
    IF find_hub_column(cols) = None THEN {<<-1, -1>>, <<0, 1>>, <<1, 1>>}
    ELSE Lifecycles

\* Pickups around the July/August boundary, before and from 3 PM.
BoundaryPickups ==
    {Ts(2024, 7, 31, 15), Ts(2024, 8, 1, 14), Ts(2024, 8, 1, 15),
     Ts(2024, 8, 2, 14)}

\* Pickups around the year boundary.
YearEndPickups == {Ts(2023, 12, 31, 14), Ts(2023, 12, 31, 15), Ts(2024, 1, 1, 14)}

\* An unparsable pickup, and an August of another year.
OtherPickups == {NaT, Ts(2023, 8, 1, 14)}

Row(c, h, p, l) ==
    [Customer |-> c, Hub |-> h, Picked_on |-> p,
     First_attempted_on |-> After(p, l[1]), Delivered_on |-> After(p, l[2])]

RowValues(cols) ==
    {Row(c, h, p, l) : c \in Customers, h \in HubValues(cols),
                       p \in BoundaryPickups, l \in LifecyclesOf(cols)}
    \cup {Row(c, h, p, <<1, 1>>) : c \in {"TATA CLiQ", "Acme"},
                                   h \in HubValues(cols), p \in YearEndPickups}
    \cup {Row("Acme", h, p, <<-1, -1>>) : h \in HubValues(cols),
                                          p \in OtherPickups}

\* The table of the rows t[1..n], each under its index label.
Table(t) == [i \in DOMAIN t |-> [ix |-> i - 1] @@ t[i]]

\* The months a report is asked for and the hub filters it is asked with.
Months == {1, 8}

HubFilters == {"All"} \cup HubNames

\* Percentages around the two thresholds of color_cells, in hundredths.
PctValues == {0, 8499, 8500, 9499, 9500, 10000}

\* Rows of a same-day frame over days of 10000 valid orders, so that the
\* counts are the same numbers as the percentages, and of a day whose orders
\* are all late special ones.
SameDayFrameRows ==
    {[Date |-> DateStr(Ts(2024, 8, 1, 0)), Hub |-> "All Hubs",
      Same_day_Orders |-> 10000,
      Attempted |-> a, Attempted_pct |-> Percentage(a, 10000),
      Delivered |-> d, Delivered_pct |-> Percentage(d, 10000)] :
        a \in PctValues, d \in PctValues}
    \cup {[Date |-> DateStr(Ts(2024, 8, 1, 0)), Hub |-> "All Hubs",
           Same_day_Orders |-> 0,
           Attempted |-> 0, Attempted_pct |-> Percentage(0, 0),
           Delivered |-> 0, Delivered_pct |-> Percentage(0, 0)]}

\* Rows of a hub summary.
HubFrameRows ==
    {[Hub |-> "H1", Avg_Attempted_pct |-> a, Avg_Delivered_pct |-> d,
      Total_Orders |-> 10000] : a \in PctValues, d \in PctValues}


\* ------------------------------------------------------------- state
VARIABLES
    pc,          \* "upload", then "ready" with a table, "done" after a call
    columns,     \* df.columns
    df,          \* the table load_data returned
    hub_column,  \* find_hub_column(df)
    call,        \* the last operation called and its arguments
    ret          \* what it returned, or that it raised

vars == <<pc, columns, df, hub_column, call, ret>>

Init ==
    /\ pc = "upload"
    /\ columns = {}
    /\ df = <<>>
    /\ hub_column = None
    /\ call = [op |-> "none", month |-> 0, hub |-> "All"]
    /\ ret = Returned(<<>>)

\* main: df = load_data(uploaded_file); hub_column = find_hub_column(df).
\* The file holds at most MaxOrders rows.
Upload ==
    /\ pc = "upload"
    /\ \E cols \in ColumnSets, n \in 0..MaxOrders :
         \E t \in [1..n -> RowValues(cols)] :
            /\ columns' = cols
            /\ df' = Table(t)
            /\ hub_column' = find_hub_column(cols)
    /\ pc' = "ready"
    /\ UNCHANGED <<call, ret>>

CallSameDay(month, hub_filter) ==
    /\ pc = "ready"
    /\ call' = [op |-> "process_same_day", month |-> month, hub |-> hub_filter]
    /\ ret' = process_same_day(filter_month_data(df, month), columns,
                               hub_filter, hub_column)
    /\ pc' = "done"
    /\ UNCHANGED <<columns, df, hub_column>>

CallNextDay(month, hub_filter) ==
    /\ pc = "ready"
    /\ call' = [op |-> "process_next_day", month |-> month, hub |-> hub_filter]
    /\ ret' = process_next_day(filter_month_data(df, month), df, columns,
                               month, hub_filter, hub_column)
    /\ pc' = "done"
    /\ UNCHANGED <<columns, df, hub_column>>

CallAllHubs(month) ==
    /\ pc = "ready"
    /\ call' = [op |-> "process_all_hubs_performance", month |-> month,
                hub |-> "All"]
    /\ ret' = process_all_hubs_performance(filter_month_data(df, month), df,
                                           columns, month, hub_column)
    /\ pc' = "done"
    /\ UNCHANGED <<columns, df, hub_column>>

CallHubPerformance(month) ==
    /\ pc = "ready"
    /\ call' = [op |-> "process_hub_performance", month |-> month,
                hub |-> "All"]
    /\ ret' = process_hub_performance(filter_month_data(df, month), columns,
                                      hub_column)
    /\ pc' = "done"
    /\ UNCHANGED <<columns, df, hub_column>>

CallCustomerPerformance(month) ==
    /\ pc = "ready"
    /\ call' = [op |-> "process_customer_performance", month |-> month,
                hub |-> "All"]
    /\ ret' = process_customer_performance(filter_month_data(df, month))
    /\ pc' = "done"
    /\ UNCHANGED <<columns, df, hub_column>>

Next ==
    \/ Upload
    \/ \E month \in Months, hub_filter \in HubFilters :
          CallSameDay(month, hub_filter)
    \/ \E month \in Months, hub_filter \in HubFilters :
          CallNextDay(month, hub_filter)
    \/ \E month \in Months : CallAllHubs(month)
    \/ \E month \in Months : CallHubPerformance(month)
    \/ \E month \in Months : CallCustomerPerformance(month)

Spec == Init /\ [][Next]_vars

\* ------------------------------------------------- styling a frame
\* main after a report returned its frame: the frame is what a table of at
\* most MaxOrders orders can give, one row a day with a pickup or one a hub.
InitFormat ==
    /\ pc = "done"
    /\ columns = {}
    /\ df = <<>>
    /\ hub_column = None
    /\ \E n \in 0..MaxOrders :
          \/ \E f \in [1..n -> SameDayFrameRows] :
                /\ call = [op |-> "process_same_day", month |-> 8, hub |-> "All"]
                /\ ret = Returned(f)
          \/ \E f \in [1..n -> HubFrameRows] :
                /\ call = [op |-> "process_hub_performance", month |-> 8,
                           hub |-> "All"]
                /\ ret = Returned(f)

\* main: format_dataframe(same_day_df[[...]], ['Attempted %', 'Delivered %'])
\* if the frame is not empty; rows2 holds the cell styles.
FormatSameDay ==
    /\ pc = "done" /\ call.op = "process_same_day"
    /\ ret.rows # <<>>
    /\ ret' = Returned2(ret.rows,
                 format_dataframe(ret.rows, {"Attempted_pct", "Delivered_pct"}))
    /\ pc' = "shown"
    /\ UNCHANGED <<columns, df, hub_column, call>>

\* main: format_dataframe(hub_performance,
\*                        ['Avg Attempted %', 'Avg Delivered %']).
FormatHubPerformance ==
    /\ pc = "done" /\ call.op = "process_hub_performance"
    /\ ret.rows # <<>>
    /\ ret' = Returned2(ret.rows,
                 format_dataframe(ret.rows,
                                  {"Avg_Attempted_pct", "Avg_Delivered_pct"}))
    /\ pc' = "shown"
    /\ UNCHANGED <<columns, df, hub_column, call>>

NextFormat ==
    \/ FormatSameDay
    \/ FormatHubPerformance

SpecFormat == InitFormat /\ [][NextFormat]_vars

\* ------------------------------------------------------------- claims
Done(op) == pc = "done" /\ call.op = op

RowsOf(frame) == {frame[i] : i \in DOMAIN frame}

HubFiltered == HubFilterApplies(columns, call.hub, hub_column)

\* The rows of the table in the called window: a known pickup in the called
\* month and, under a hub filter, the called hub.
InWindow(o) ==
    /\ ~IsNaT(o.Picked_on)
    /\ o.Picked_on.month = call.month
    /\ HubFiltered => o.Hub = call.hub

WindowIx == {i \in DOMAIN df : InWindow(df[i])}

\* The year process_next_day takes the window to be in.
WindowYear ==
    MinPicked(ApplyHubFilter(filter_month_data(df, call.month), columns,
                             call.hub, hub_column)).year

\* The next-day series, hub filter "All", of the window a date lies in.
NextDayOfMonthOf(date) ==
    process_next_day(filter_month_data(df, date.month), df, columns,
                     date.month, "All", hub_column)

CountedSameDay(o) ==
    /\ ~ret.raised
    /\ \E r \in RowsOf(ret.rows) : r.Date = DateStr(o.Picked_on)
    /\ \E v \in RowsOf(valid_orders(filter_month_data(df, call.month),
                                    o.Picked_on)) : v.ix = o.ix

CountedNextDay(o) ==
    LET date == PlusDay(o.Picked_on)
        df_month == filter_month_data(df, date.month)
        next_day == NextDayOfMonthOf(date)
    IN /\ ~next_day.raised
       /\ \E r \in RowsOf(next_day.rows) : r.Date = DateStr(date)
       /\ \E v \in RowsOf(special_orders(df_month, df, columns, date.month,
                              "All", hub_column, MinPicked(df_month).year,
                              date)) : v.ix = o.ix

\* C1: every order with a known pickup on day D is counted either in the
\* same-day row of D or in the next-day row of D + 1, never in both and never
\* in neither, whatever its customer.
C1_Partition ==
    (Done("process_same_day") /\ call.hub = "All") =>
        \A i \in WindowIx : CountedSameDay(df[i]) # CountedNextDay(df[i])

\* The source orders the first day of the window looks back to: special
\* customers' orders of the full table picked from 3 PM on the day before.
FirstDay == Ts(WindowYear, call.month, 1, 0)

LookbackIx ==
    {i \in DOMAIN df :
        /\ df[i].Customer \in next_day_special_customers
        /\ SameDate(df[i].Picked_on, MinusDay(FirstDay))
        /\ df[i].Picked_on.hour >= 15
        /\ HubFiltered => df[i].Hub = call.hub}

\* A late order of the last day of the month before the called one: picked
\* from 3 PM by a special customer (of the called hub under a hub filter).
LateOnEve(o) ==
    /\ o.Customer \in next_day_special_customers
    /\ ~IsNaT(o.Picked_on)
    /\ o.Picked_on.hour >= 15
    /\ PlusDay(o.Picked_on).day = 1
    /\ PlusDay(o.Picked_on).month = call.month
    /\ HubFiltered => o.Hub = call.hub

\* C2: whenever the full table holds late special-customer orders of the last
\* day of month M, process_next_day for the window M + 1 returns a row dated
\* the first day of M + 1 that counts exactly those orders (of the selected
\* hub under a hub filter), December of the year before included.
C2_LookbackProducesRow ==
    Done("process_next_day") =>
        \A i \in DOMAIN df :
            LateOnEve(df[i]) =>
                /\ ~ret.raised
                /\ \E r \in RowsOf(ret.rows) :
                      /\ r.Date = DateStr(PlusDay(df[i].Picked_on))
                      /\ r.Next_day_Orders = Cardinality({j \in DOMAIN df :
                            /\ LateOnEve(df[j])
                            /\ SameDate(df[j].Picked_on, df[i].Picked_on)})

\* What does hold of the lookback: when the call returns, which it does when
\* the called window has an order of its own, the series has a row dated the
\* first day of the window's month exactly when the full table holds late
\* special orders of the day before, and that row counts exactly those.
LookbackWhenWindowHasOrders ==
    (Done("process_next_day") /\ ~ret.raised) =>
        LET first == {i \in DOMAIN ret.rows :
                         ret.rows[i].Date = DateStr(FirstDay)}
        IN IF LookbackIx = {} THEN first = {}
           ELSE /\ Cardinality(first) = 1
                /\ \A i \in first :
                      ret.rows[i].Next_day_Orders = Cardinality(LookbackIx)

\* A January window under hub filter H1 whose first row counts the one late
\* December order of H1.
LookbackReachedJanuary ==
    /\ Done("process_next_day") /\ ~ret.raised
    /\ call.month = 1 /\ call.hub = "H1" /\ HubFiltered
    /\ Cardinality(LookbackIx) = 1
    /\ \E r \in RowsOf(ret.rows) :
          r.Date = [year |-> 2024, month |-> 1, day |-> 1]

\* The days of the window on which an order was picked.
PickupDays == {DateStr(df[i].Picked_on) : i \in WindowIx}

\* C3, as claimed: the same-day series has a row for every calendar day of
\* the window's month, the days without a picked order included.
C3_RowForEveryCalendarDay ==
    (Done("process_same_day") /\ ~ret.raised) =>
        \A d \in 1..DaysInMonth(WindowYear, call.month) :
            \E r \in RowsOf(ret.rows) :
                r.Date = [year |-> WindowYear, month |-> call.month, day |-> d]

\* C3, amended: the same-day series has exactly one row for every day on
\* which an order of the window was picked, a day whose picked orders are
\* all left out as late special orders included, and no row for other days.
C3_RowPerPickupDay ==
    (Done("process_same_day") /\ ~ret.raised) =>
        /\ {r.Date : r \in RowsOf(ret.rows)} = PickupDays
        /\ Len(ret.rows) = Cardinality(PickupDays)

\* Two pickup days, one of them with late special orders only.
C3_Witness ==
    /\ Done("process_same_day") /\ ~ret.raised
    /\ Len(ret.rows) = 2
    /\ \E r \in RowsOf(ret.rows) : r.Same_day_Orders = 0

\* The source orders of the next-day row of a date.
SourceIx(date) ==
    {i \in DOMAIN df :
        /\ df[i].Customer \in next_day_special_customers
        /\ SameDate(df[i].Picked_on, MinusDay(date))
        /\ df[i].Picked_on.hour >= 15
        /\ HubFiltered => df[i].Hub = call.hub}

\* C4: every next-day row counts at least one order, and a row is dated D
\* only if a special-customer order was picked from 3 PM on D - 1.
C4_NextDayRowsNonZero ==
    (Done("process_next_day") /\ ~ret.raised) =>
        \A r \in RowsOf(ret.rows) :
            r.Next_day_Orders >= 1 /\ SourceIx(r.Date) # {}

\* A next-day series with a row, of a table that also holds a special order
\* picked before 3 PM, whose next day has no row.
C4_Witness ==
    /\ Done("process_next_day") /\ ~ret.raised
    /\ Len(ret.rows) = 1
    /\ \E i \in WindowIx :
          /\ df[i].Customer = "TATA CLiQ"
          /\ df[i].Picked_on.hour < 15
          /\ ret.rows[1].Date # DateStr(PlusDay(df[i].Picked_on))

\* C5: in every next-day row the total is the sum of the previous-day and
\* current-day counts, each source order counts at most once, only by a
\* first attempt (delivery) on D - 1 or D, and the total is at most the
\* number of source orders.
C5_NextDayBreakdown ==
    (Done("process_next_day") /\ ~ret.raised) =>
        \A r \in RowsOf(ret.rows) :
            LET src == SourceIx(r.Date)
                prev == MinusDay(r.Date)
                AttOn(d) == {i \in src : SameDate(df[i].First_attempted_on, d)}
                DelOn(d) == {i \in src : SameDate(df[i].Delivered_on, d)}
            IN /\ r.Attempted = r.Attempted_Previous_Day + r.Attempted_Current_Day
               /\ r.Attempted <= r.Next_day_Orders
               /\ r.Attempted_Previous_Day = Cardinality(AttOn(prev))
               /\ r.Attempted_Current_Day = Cardinality(AttOn(r.Date))
               /\ r.Attempted = Cardinality(AttOn(prev) \cup AttOn(r.Date))
               /\ r.Delivered = r.Delivered_Previous_Day + r.Delivered_Current_Day
               /\ r.Delivered <= r.Next_day_Orders
               /\ r.Delivered_Previous_Day = Cardinality(DelOn(prev))
               /\ r.Delivered_Current_Day = Cardinality(DelOn(r.Date))
               /\ r.Delivered = Cardinality(DelOn(prev) \cup DelOn(r.Date))

\* A row of two source orders: one attempted on the pickup day and delivered
\* the day after, one attempted and delivered two days after the pickup.
C5_Witness ==
    /\ Done("process_next_day") /\ ~ret.raised
    /\ \E r \in RowsOf(ret.rows) :
          /\ r.Next_day_Orders = 2
          /\ r.Attempted_Previous_Day = 1 /\ r.Attempted_Current_Day = 0
          /\ r.Delivered_Previous_Day = 0 /\ r.Delivered_Current_Day = 1
          /\ \E i \in SourceIx(r.Date) :
                SameDate(df[i].First_attempted_on, PlusDay(r.Date))

\* The same-day eligible orders of a date: picked on it in the window, by a
\* customer outside process_same_day's special list or before 3 PM.
EligibleIx(date) ==
    {i \in WindowIx :
        /\ SameDate(df[i].Picked_on, date)
        /\ \/ df[i].Customer \notin same_day_special_customers
           \/ df[i].Picked_on.hour < 15}

\* C6: a same-day row dated D counts the eligible orders picked on D, those
\* of them first attempted on D and those delivered on D; no two rows share
\* a date, so an order counts only in the row of its pickup day.
C6_SameDayCounts ==
    (Done("process_same_day") /\ ~ret.raised) =>
        /\ \A r \in RowsOf(ret.rows) :
              LET elig == EligibleIx(r.Date)
              IN /\ r.Same_day_Orders = Cardinality(elig)
                 /\ r.Attempted = Cardinality(
                        {i \in elig : SameDate(df[i].First_attempted_on, r.Date)})
                 /\ r.Delivered = Cardinality(
                        {i \in elig : SameDate(df[i].Delivered_on, r.Date)})
        /\ \A i, j \in DOMAIN ret.rows :
              ret.rows[i].Date = ret.rows[j].Date => i = j

\* A row of two eligible orders, a regular one picked at 3 PM among them,
\* one attempted on the day and none delivered on it.
C6_Witness ==
    /\ Done("process_same_day") /\ ~ret.raised
    /\ \E r \in RowsOf(ret.rows) :
          /\ r.Same_day_Orders = 2 /\ r.Attempted = 1 /\ r.Delivered = 0
          /\ \E i \in EligibleIx(r.Date) :
                df[i].Customer = "Acme" /\ df[i].Picked_on.hour >= 15

PctDefined(p) == p \in 0..10000

\* C7: in every row of the same-day, next-day and per-customer series the
\* percentages are defined, and they are 0 when the row's order count is 0.
C7_DivisionGuard ==
    /\ (Done("process_same_day") /\ ~ret.raised) =>
          \A r \in RowsOf(ret.rows) :
              /\ PctDefined(r.Attempted_pct) /\ PctDefined(r.Delivered_pct)
              /\ r.Same_day_Orders = 0 =>
                    r.Attempted_pct = 0 /\ r.Delivered_pct = 0
    /\ (Done("process_next_day") /\ ~ret.raised) =>
          \A r \in RowsOf(ret.rows) :
              /\ PctDefined(r.Attempted_pct) /\ PctDefined(r.Delivered_pct)
              /\ r.Next_day_Orders = 0 =>
                    r.Attempted_pct = 0 /\ r.Delivered_pct = 0
    /\ Done("process_customer_performance") =>
          \A r \in RowsOf(ret.rows) :
              /\ PctDefined(r.Attempted_pct) /\ PctDefined(r.Delivered_pct)
              /\ r.Total_Orders = 0 =>
                    r.Attempted_pct = 0 /\ r.Delivered_pct = 0

\* A same-day series of one day whose picked orders are all late special ones.
C7_Witness ==
    /\ Done("process_same_day") /\ ~ret.raised
    /\ Len(ret.rows) = 1
    /\ ret.rows[1].Same_day_Orders = 0
    /\ \A i \in WindowIx :
          df[i].Customer = "TATA CLiQ" /\ df[i].Picked_on.hour >= 15

\* C8: process_same_day and process_next_day return an empty frame, and do
\* not raise, when the window holds no order.
C8_EmptyWindowReturnsEmpty ==
    ((Done("process_same_day") \/ Done("process_next_day")) /\ WindowIx = {})
        => (~ret.raised /\ ret.rows = <<>>)

\* The customers with an order in the window.
WindowCustomers == {df[i].Customer : i \in WindowIx}

\* C9: the per-customer series has exactly one row per customer of the
\* window; it counts all the customer's orders of the window, those first
\* attempted on their own pickup day and those delivered on it.
C9_CustomerRollup ==
    Done("process_customer_performance") =>
        /\ ~ret.raised
        /\ {r.Customer : r \in RowsOf(ret.rows)} = WindowCustomers
        /\ Len(ret.rows) = Cardinality(WindowCustomers)
        /\ \A r \in RowsOf(ret.rows) :
              LET mine == {i \in WindowIx : df[i].Customer = r.Customer}
              IN /\ r.Total_Orders = Cardinality(mine)
                 /\ r.Same_Day_Attempted = Cardinality({i \in mine :
                        SameDate(df[i].First_attempted_on, df[i].Picked_on)})
                 /\ r.Same_Day_Delivered = Cardinality({i \in mine :
                        SameDate(df[i].Delivered_on, df[i].Picked_on)})
                 /\ r.Same_Day_Attempted <= r.Total_Orders
                 /\ r.Same_Day_Delivered <= r.Total_Orders

\* A special customer with two orders, one of them picked from 3 PM and one
\* attempted the day after its pickup.
C9_Witness ==
    /\ Done("process_customer_performance")
    /\ \E r \in RowsOf(ret.rows) :
          /\ r.Customer = "TATA CLiQ"
          /\ r.Total_Orders = 2 /\ r.Same_Day_Attempted = 1
          /\ r.Same_Day_Delivered = 0
    /\ \E i \in WindowIx : df[i].Picked_on.hour >= 15
    /\ \E i \in WindowIx :
          SameDate(df[i].First_attempted_on, PlusDay(df[i].Picked_on))

Abs(x) == IF x < 0 THEN -x ELSE x

\* mean is sum / count rounded to the nearest hundredth.
IsRoundedMean(mean, sum, count) == 2 * Abs(count * mean - sum) <= count

WindowHubs == {df[i].Hub : i \in WindowIx}

C10_WitnessNoHub ==
    /\ Done("process_hub_performance") /\ hub_column = None
    /\ WindowIx # {} /\ ret.rows = <<>>

\* The columns of the frames that hold percentages; the others hold counts,
\* dates and hub names.
PercentageColumns ==
    {"Attempted_pct", "Delivered_pct", "Avg_Attempted_pct", "Avg_Delivered_pct"}

\* C11: in a styled frame every percentage cell is green exactly when its
\* value is at least 95, yellow exactly when it is at least 85 and below 95,
\* red exactly when it is below 85, so every percentage has exactly one of
\* the three bands, and no cell of another column is styled.
C11_SeverityBands ==
    pc = "shown" =>
        \A i \in DOMAIN ret.rows :
            \A c \in DOMAIN ret.rows[i] :
                LET v == ret.rows[i][c]
                    style == ret.rows2[i][c]
                IN IF c \in PercentageColumns
                   THEN /\ style \in {Green, Yellow, Red}
                        /\ style = Green <=> v >= 9500
                        /\ style = Yellow <=> (v >= 8500 /\ v < 9500)
                        /\ style = Red <=> v < 8500
                   ELSE style = ""

\* A styled same-day frame with a percentage on each threshold and one just
\* below 85, next to a count of 9500 that stays unstyled.
C11_Witness ==
    /\ pc = "shown"
    /\ Green # Yellow /\ Yellow # Red /\ Green # Red
    /\ \E i \in DOMAIN ret.rows, j \in DOMAIN ret.rows :
          /\ call.op = "process_same_day"
          /\ ret.rows[i].Attempted_pct = 9500
          /\ ret.rows2[i].Attempted_pct = Green
          /\ ret.rows[i].Attempted = 9500
          /\ ret.rows2[i].Attempted = ""
          /\ ret.rows[i].Delivered_pct = 8500
          /\ ret.rows2[i].Delivered_pct = Yellow
          /\ ret.rows[j].Delivered_pct = 8499
          /\ ret.rows2[j].Delivered_pct = Red

\* What process_next_day returns for the hub filter 'All' on the table and
\* month of the last call; a call that raised has no rows.
OverallNextDay ==
    process_next_day(filter_month_data(df, call.month), df, columns,
                     call.month, "All", hub_column).rows

\* 'Next day Orders' summed over the rows of the frame that are dated date.
NextDayOrdersOn(frame, date) ==
    LET OnDate(r) == r.Date = date
        dated == SelectSeq(frame, OnDate)
    IN SumOf([i \in DOMAIN dated |-> dated[i].Next_day_Orders])

\* C12: for a table with a hub column, the next-day rows of all hubs that
\* process_all_hubs_performance returns sum, on every date, to the count of
\* the row process_next_day returns for that date under the hub filter 'All',
\* a date without a row counting 0.
C12_HubsSumToOverall ==
    (Done("process_all_hubs_performance") /\ hub_column # None) =>
        \A date \in {r.Date : r \in RowsOf(ret.rows2) \cup RowsOf(OverallNextDay)} :
            NextDayOrdersOn(ret.rows2, date) = NextDayOrdersOn(OverallNextDay, date)

\* A late order: of a special customer of process_next_day, with a known
\* pickup from 3 PM.
LateSpecial(o) ==
    /\ o.Customer \in next_day_special_customers
    /\ ~IsNaT(o.Picked_on)
    /\ o.Picked_on.hour >= 15

\* The late orders of the table picked the day before date.
LatePickedBefore(date) ==
    {i \in DOMAIN df :
        /\ LateSpecial(df[i])
        /\ DateStr(PlusDay(df[i].Picked_on)) = date}

\* C13: under the hub filter 'All', every late order picked on a day P whose
\* next day lies in the called month is counted by a returned row dated
\* P + 1, and every returned row counts exactly the late orders picked the
\* day before its date, so that no row of another date or window counts
\* them; tables with one month number in two years and months without a
\* pickup of their own included.
C13_NoLateOrderLost ==
    (Done("process_next_day") /\ call.hub = "All") =>
        /\ \A i \in DOMAIN df :
              (LateSpecial(df[i]) /\ PlusDay(df[i].Picked_on).month = call.month) =>
                  /\ ~ret.raised
                  /\ \E r \in RowsOf(ret.rows) :
                        r.Date = DateStr(PlusDay(df[i].Picked_on))
        /\ \A r \in RowsOf(ret.rows) :
              r.Next_day_Orders = Cardinality(LatePickedBefore(r.Date))

====
